---- MODULE Spec2Model ----
(***************************************************************************)
(* Model of demo.py: the command-line main block (argument parsing, data   *)
(* set loading, shuffling, train/test split, spin labels) and train_models *)
(* (sampler construction, preprocessing, fit/predict of four classifiers,  *)
(* accuracy lines and the final comparison table).                         *)
(*                                                                         *)
(* Array indices are Python's (0-based); arrays are TLA+ sequences, so the *)
(* element with Python index i of array a is a[i + 1].                     *)
(* Feature matrices have one column; a row is an integer.                  *)
(***************************************************************************)
EXTENDS Integers, Sequences, FiniteSets, TLC

VARIABLES pc, argv, verbose, exit_status, err, out, trace,
          mnist, wisc, idx, idx_train, idx_test,
          X_train, X_test, y_train, y_test,
          dwave_sampler, scaler, normalizer,
          clf, clf2, clf3, clf4,
          y_train_pred, y_test_pred, y_train_pred2, y_test_pred2,
          y_train_dw, y_test_dw, y_train4, y_test4

vars == <<pc, argv, verbose, exit_status, err, out, trace,
          mnist, wisc, idx, idx_train, idx_test,
          X_train, X_test, y_train, y_test,
          dwave_sampler, scaler, normalizer,
          clf, clf2, clf3, clf4,
          y_train_pred, y_test_pred, y_train_pred2, y_test_pred2,
          y_train_dw, y_test_dw, y_train4, y_test4>>

mainVars == <<mnist, wisc, idx, idx_train, idx_test>>
dataVars == <<X_train, X_test, y_train, y_test>>
prepVars == <<scaler, normalizer>>
clfVars == <<clf, clf2, clf3, clf4>>
predVars == <<y_train_pred, y_test_pred, y_train_pred2, y_test_pred2,
               y_train_dw, y_test_dw, y_train4, y_test4>>

(***************************************************************************)
(* Bounds of the model.                                                    *)
(***************************************************************************)
\* load_breast_cancer() returns between 0 and MaxSamples samples.
MaxSamples == 5
\* The subsample size n of the mnist branch (5000 in the code), scaled down;
\* fetch_openml returns MnistN or MnistN + 1 samples (70000 in reality, more
\* than n).
MnistN == 2

(***************************************************************************)
(* Program constants.                                                      *)
(***************************************************************************)
NUM_WEAK_CLASSIFIERS == 35
TREE_DEPTH == 3

Min(a, b) == IF a <= b THEN a ELSE b

(***************************************************************************)
(* Strings.                                                                *)
(***************************************************************************)
Digits == <<"0", "1", "2", "3", "4", "5", "6", "7", "8", "9">>

\* ord() of a one-character string of a decimal digit.
Ord(c) == 47 + (CHOOSE k \in 1..10 : Digits[k] = c)

\* Python's a <= b on strings: lexicographic on the characters' code points.
RECURSIVE StrLE(_, _)
StrLE(a, b) ==
    IF Len(a) = 0 THEN TRUE
    ELSE IF Len(b) = 0 THEN FALSE
    ELSE LET ca == Ord(SubSeq(a, 1, 1))
             cb == Ord(SubSeq(b, 1, 1))
         IN  IF ca < cb THEN TRUE
             ELSE IF ca > cb THEN FALSE
             ELSE StrLE(SubSeq(a, 2, Len(a)), SubSeq(b, 2, Len(b)))

\* str() of a natural number.
RECURSIVE IntStr(_)
IntStr(k) == IF k < 10 THEN Digits[k + 1]
             ELSE IntStr(k \div 10) \o Digits[(k % 10) + 1]

RECURSIVE Spaces(_)
Spaces(k) == IF k <= 0 THEN "" ELSE " " \o Spaces(k - 1)

\* '{:>w}' and '{:<w}': pad to width w, never truncate.
PadLeft(s, w) == Spaces(w - Len(s)) \o s
PadRight(s, w) == s \o Spaces(w - Len(s))

\* '=' * k  and  '-' * k
RECURSIVE Repeat(_, _)
Repeat(c, k) == IF k <= 0 THEN "" ELSE c \o Repeat(c, k - 1)

(***************************************************************************)
(* Python slices a[lo:hi], a[:hi], a[lo:] (bounds clamped to the length)   *)
(* and numpy fancy indexing a[idx].                                        *)
(***************************************************************************)
Slice(a, lo, hi) == SubSeq(a, Min(lo, Len(a)) + 1, Min(hi, Len(a)))
SliceTo(a, hi) == Slice(a, 0, hi)
SliceFrom(a, lo) == Slice(a, lo, Len(a))
Take(a, ix) == [k \in 1..Len(ix) |-> a[ix[k] + 1]]

\* np.arange(k)
Arange(k) == [i \in 1..k |-> i - 1]

\* The outcomes of np.random.shuffle(a): every permutation of a.
Shuffles(a) ==
    { [k \in 1..Len(a) |-> a[p[k]]] :
        p \in { q \in [1..Len(a) -> 1..Len(a)] :
                  \A i, j \in 1..Len(a) : q[i] = q[j] => i = j } }

Range(s) == { s[k] : k \in 1..Len(s) }

(***************************************************************************)
(* The data sets.  A data set is a record of a feature column and a target *)
(* column of the same length.                                              *)
(***************************************************************************)
NoData == [data |-> <<>>, target |-> <<>>]

\* fetch_openml('mnist_784'): targets are strings of one digit.
MnistSets ==
    { [data   |-> [i \in 1..len |-> (i * i) % 7],
       target |-> [i \in 1..len |-> Digits[((i + off) % 10) + 1]]] :
        len \in {MnistN, MnistN + 1}, off \in {3, 8} }

\* load_breast_cancer(): targets are 0 or 1.
WiscSets ==
    { [data   |-> [i \in 1..len |-> (i * i) % 7],
       target |-> [i \in 1..len |-> i % 2]] :
        len \in 0..MaxSamples }

(***************************************************************************)
(* Trace entries and output lines.                                         *)
(***************************************************************************)
\* One executed step: the operation, the object it acts on, its arguments.
Step(op, who, X, y) == [op |-> op, who |-> who, X |-> X, y |-> y]

\* One line written by the print statement at the given source line.
Line(ln, text) == [line |-> ln, text |-> text]

(***************************************************************************)
(* Preprocessing (sklearn.preprocessing).                                  *)
(***************************************************************************)
RECURSIVE Sum(_)
Sum(s) == IF Len(s) = 0 THEN 0 ELSE s[1] + Sum(Tail(s))

Unfitted == [fitted |-> FALSE, n_samples_seen |-> 0, sum |-> 0, sumsq |-> 0]

\* StandardScaler.fit(X): the statistics that determine mean_ and var_
\* (mean_ = sum / n, var_ = sumsq / n - mean_^2).
ScalerFit(X) ==
    [fitted |-> TRUE, n_samples_seen |-> Len(X), sum |-> Sum(X),
     sumsq |-> Sum([k \in 1..Len(X) |-> X[k] * X[k]])]

\* StandardScaler.transform: (x - mean_) / scale_, with scale_ = 1 for a
\* zero-variance column.  The value is Centered(s, x) / (n * scale_) with
\* n * scale_ > 0; the numerator is what the model keeps.
Centered(s, x) == x * s.n_samples_seen - s.sum

Sign(v) == IF v > 0 THEN 1 ELSE IF v < 0 THEN -1 ELSE 0

\* Normalizer.transform on a one-column row: v / |v|, a zero row unchanged.
UnitNorm(v) == Sign(v)

\* scaler.fit_transform followed by normalizer.fit_transform, given the
\* scaler state the first of them leaves.
Preprocess(s, X) == [k \in 1..Len(X) |-> UnitNorm(Centered(s, X[k]))]

\* Normalizer keeps no statistics; fit records the number of columns.
NormalizerUnfitted == [fitted |-> FALSE, n_features_in |-> 0]
NormalizerFit(X) == [fitted |-> TRUE, n_features_in |-> 1]

(***************************************************************************)
(* Classifiers.  A fitted ensemble selects one weak learner of a fixed     *)
(* pool; estimator_weights is the indicator vector of the selection.       *)
(***************************************************************************)
WeakPool == <<"neg", "sgn">>

WeakPredict(h, x) ==
    CASE h = "neg" -> -1
      [] OTHER     -> IF x >= 0 THEN 1 ELSE -1

NoClf == [fitted |-> FALSE, estimator_weights |-> [j \in 1..Len(WeakPool) |-> 0]]

\* The possible results of fit(X, y) for the three base classifiers.
FitOutcomes ==
    { [fitted |-> TRUE,
       estimator_weights |-> [j \in 1..Len(WeakPool) |-> IF j = sel THEN 1 ELSE 0]] :
        sel \in 1..Len(WeakPool) }

\* sign of a vote, a tie counted as +1.
Vote(v) == IF v >= 0 THEN 1 ELSE -1

\* predict(X) of a base classifier.
Predict(c, X) ==
    [k \in 1..Len(X) |->
        Vote(Sum([j \in 1..Len(WeakPool) |->
                    c.estimator_weights[j] * WeakPredict(WeakPool[j], X[k])]))]

NoPlus == [fitted |-> FALSE, estimators |-> <<>>, estimator_weights |-> <<0, 0, 0>>]

\* QboostPlus([clf, clf2, clf3]) then fit: binary weights over the three
\* base classifiers (all of them, the first alone or the last alone).
PlusFitOutcomes(cs) ==
    { [fitted |-> TRUE, estimators |-> cs, estimator_weights |-> w] :
        w \in { <<1, 1, 1>>, <<1, 0, 0>>, <<0, 0, 1>> } }

\* QboostPlus.predict(X): weighted vote of the base predictions.
PredictPlus(c, X) ==
    [k \in 1..Len(X) |->
        Vote(Sum([j \in 1..3 |->
                    c.estimator_weights[j] * Predict(c.estimators[j], X)[k]]))]

(***************************************************************************)
(* Accuracy and its formatting.                                            *)
(***************************************************************************)
\* metrics.accuracy_score(y, y_pred) as the fraction num / den.
metric(y, y_pred) ==
    [num |-> Cardinality({ k \in 1..Len(y) : y[k] = y_pred[k] }),
     den |-> Len(y)]

\* The binary expansion of a fraction r / den < 1, one bit a step: k is the
\* number of significant bits already taken and last the latest of them.
\* The result is the sign of (double nearest to the fraction) - (the
\* fraction): the 53-bit significand rounded half to even.
RECURSIVE ExpandBits(_, _, _, _)
ExpandBits(r, den, k, last) ==
    LET bit  == (2 * r) \div den
        rest == (2 * r) % den
        kk   == IF k = 0 /\ bit = 0 THEN 0 ELSE k + 1
    IN  IF rest = 0 THEN 0
        ELSE IF kk < 53 THEN ExpandBits(rest, den, kk, bit)
        ELSE IF 2 * rest > den THEN 1
        ELSE IF 2 * rest < den THEN -1
        ELSE IF bit = 1 THEN 1 ELSE -1

\* Sign of the error of the float64 division num / den (0 <= num <= den).
DoubleError(num, den) ==
    IF num = 0 \/ num = den THEN 0 ELSE ExpandBits(num, den, 0, 0)

\* '{:.2f}'.format(num / den): the double num / den, correctly rounded to
\* hundredths.  When num / den is an exact decimal half, the double decides:
\* above or below the half if the division was inexact, half to even if it
\* was exact.
Hundredths(m) ==
    LET q == (100 * m.num) \div m.den
        r == (100 * m.num) % m.den
        e == DoubleError(m.num, m.den)
    IN  IF 2 * r < m.den THEN q
        ELSE IF 2 * r > m.den THEN q + 1
        ELSE IF e > 0 THEN q + 1
        ELSE IF e < 0 THEN q
        ELSE IF q % 2 = 0 THEN q ELSE q + 1

Fmt2f(m) ==
    LET h == Hundredths(m)
    IN  IntStr(h \div 100) \o "." \o Digits[((h % 100) \div 10) + 1]
                                  \o Digits[(h % 10) + 1]

\* str() of a weight vector, as numpy prints it.
RECURSIVE Join(_)
Join(w) == IF Len(w) = 0 THEN ""
           ELSE IF Len(w) = 1 THEN IntStr(w[1])
           ELSE IntStr(w[1]) \o " " \o Join(Tail(w))
ArrayStr(w) == "[" \o Join(w) \o "]"

\* The two accuracy lines every classifier section ends with.
AccuracyLines(ln, yp_train, yp_test) ==
    << Line(ln, "Accuracy on training set: "
                  \o PadLeft(Fmt2f(metric(y_train, yp_train)), 5)),
       Line(ln + 1, "Accuracy on test set:     "
                  \o PadLeft(Fmt2f(metric(y_test, yp_test)), 5)) >>

\* Mutant: the weights are printed whatever verbose is.
WeightLines_Always(ln, label, c) ==
    << Line(ln, label \o " " \o ArrayStr(c.estimator_weights)) >>

\* The line printed under verbose.
WeightLines(ln, label, c) ==
    IF verbose THEN << Line(ln, label \o " " \o ArrayStr(c.estimator_weights)) >>
    ELSE << >>

(***************************************************************************)
(* Initial state: the command line, and the verbose argument train_models  *)
(* is called with (the main block passes the default, False; True is the   *)
(* function called with verbose=True).                                     *)
(***************************************************************************)
Choices == {"mnist", "wisc"}

\* The command lines (sys.argv[1:]) the model starts from.
Argvs == { <<>>, <<"mnist">>, <<"wisc">>, <<"unknown">>, <<"MNIST">>,
           <<"wisc", "mnist">>, <<"-h">>, <<"--help">>, <<"mnist", "-h">>,
           <<"-h", "unknown">>, <<"unknown", "-h">>, <<"--", "mnist">>,
           <<"-x", "wisc">>, <<"-h=h">>, <<"--=foo", "-h">>, <<"wisc", "-hhx">> }

Char(s, i) == SubSeq(s, i, i)

HasChar(s, c) == \E i \in 1..Len(s) : Char(s, i) = c

StartsWith(s, p) == Len(s) >= Len(p) /\ SubSeq(s, 1, Len(p)) = p

AllDigits(s) == \A i \in 1..Len(s) : \E d \in 1..10 : Digits[d] = Char(s, i)

\* The position of the first c in s (s has one).
IndexOf(s, c) ==
    CHOOSE i \in 1..Len(s) : Char(s, i) = c /\ \A j \in 1..(i - 1) : Char(s, j) # c

\* The characters below code point 256 that str.isprintable() rejects, but
\* for tab, newline and carriage return, in code point order, and their code
\* points: 1..8, 11, 12, 14..31, 127..160 and 173.
NonPrintable == "\f ­"
NonPrintableCodes ==
    [i \in 1..8 |-> i] \o <<11, 12>> \o [i \in 1..18 |-> 13 + i]
        \o [i \in 1..34 |-> 126 + i] \o <<173>>

HexDigits == "0123456789abcdef"

\* "%02x" % n
Hex2(n) == Char(HexDigits, (n \div 16) + 1) \o Char(HexDigits, (n % 16) + 1)

\* One character as repr() writes it inside the quote character q.
EscapeChar(c, q) ==
    IF c = "\\" THEN "\\\\"
    ELSE IF c = q THEN "\\" \o q
    ELSE IF c = "\t" THEN "\\t"
    ELSE IF c = "\n" THEN "\\n"
    ELSE IF c = "\r" THEN "\\r"
    ELSE IF HasChar(NonPrintable, c)
         THEN "\\x" \o Hex2(NonPrintableCodes[IndexOf(NonPrintable, c)])
    ELSE c

\* s as repr() writes it inside the quote character q.
RECURSIVE Escape(_, _)
Escape(s, q) ==
    IF Len(s) = 0 THEN ""
    ELSE EscapeChar(Char(s, 1), q) \o Escape(SubSeq(s, 2, Len(s)), q)

\* repr() of a str of characters below code point 256: double quotes when s
\* holds a single quote and no double quote, single quotes otherwise.
Repr(s) ==
    IF HasChar(s, "'") /\ ~HasChar(s, "\"")
    THEN "\"" \o Escape(s, "\"") \o "\""
    ELSE "'" \o Escape(s, "'") \o "'"

\* argparse's negative-number pattern, ^-\d+$|^-\d*\.\d+$ ("$" also matches
\* before a newline that ends the string).
IsNegNumber(t) ==
    LET u == IF Len(t) > 0 /\ Char(t, Len(t)) = "\n"
             THEN SubSeq(t, 1, Len(t) - 1) ELSE t
    IN  /\ Len(u) >= 2
        /\ Char(u, 1) = "-"
        /\ LET r == SubSeq(u, 2, Len(u))
           IN  \/ AllDigits(r)
               \/ \E i \in 1..(Len(r) - 1) :
                    /\ Char(r, i) = "."
                    /\ AllDigits(SubSeq(r, 1, i - 1))
                    /\ AllDigits(SubSeq(r, i + 1, Len(r)))

\* The strings --help starts with that themselves start with two dashes:
\* each is read as --help (_get_option_tuples).
HelpAbbrevs == {"--", "--h", "--he", "--hel", "--help"}

Token(kind, arg) == [kind |-> kind, arg |-> arg]

\* e without the h characters it starts with.
RECURSIVE StripFlags(_)
StripFlags(e) ==
    IF Len(e) > 0 /\ Char(e, 1) = "h" THEN StripFlags(SubSeq(e, 2, Len(e))) ELSE e

\* -h followed by the explicit argument e (consume_optional): -h takes no
\* argument, so each h that e starts with is read as one more -h flag; the
\* help is shown when nothing is left, and what is left is the argument the
\* error names.  An empty e ("-h=") is an error by itself.
ShortHelp(e) ==
    IF Len(e) = 0 THEN Token("badhelp", "")
    ELSE IF Len(StripFlags(e)) = 0 THEN Token("help", "")
    ELSE Token("badhelp", StripFlags(e))

\* How the parser reads one argument string before any "--": a positional
\* ("pos"), the help option ("help"), the help option given an explicit
\* argument ("badhelp"), or an option it does not know ("unknown").
Classify(t) ==
    IF Len(t) = 0 \/ ~StartsWith(t, "-") THEN Token("pos", "")
    ELSE IF t \in {"-h", "--help"} THEN Token("help", "")
    ELSE IF Len(t) = 1 THEN Token("pos", "")
    ELSE IF StartsWith(t, "--")
               /\ (IF HasChar(t, "=") THEN SubSeq(t, 1, IndexOf(t, "=") - 1) ELSE t)
                     \in HelpAbbrevs
         THEN IF HasChar(t, "=")
              THEN Token("badhelp", SubSeq(t, IndexOf(t, "=") + 1, Len(t)))
              ELSE Token("help", "")
    ELSE IF ~StartsWith(t, "--") /\ StartsWith(t, "-h")
         THEN ShortHelp(IF Char(t, 3) = "=" THEN SubSeq(t, 4, Len(t))
                                            ELSE SubSeq(t, 3, Len(t)))
    ELSE IF IsNegNumber(t) \/ HasChar(t, " ") THEN Token("pos", "")
    ELSE Token("unknown", "")

RECURSIVE JoinWords(_)
JoinWords(ws) == IF Len(ws) = 0 THEN ""
                 ELSE IF Len(ws) = 1 THEN ws[1]
                 ELSE ws[1] \o " " \o JoinWords(Tail(ws))

Parsed(kind, dataset, reason, message) ==
    [kind |-> kind, dataset |-> dataset, reason |-> reason, message |-> message]

\* parse_args over toks from position i on.  posonly: a "--" was passed;
\* ds: the value taken for dataset ("" while none); prevds: the string before
\* position i is the one taken for dataset; extras: the unrecognized strings.
RECURSIVE Scan(_, _, _, _, _, _)
Scan(toks, i, posonly, ds, prevds, extras) ==
    IF i > Len(toks)
    THEN IF ds = ""
         THEN Parsed("error", "", "required",
                     "demo.py: error: the following arguments are required: dataset")
         ELSE IF Len(extras) > 0
         THEN Parsed("error", "", "unrecognized",
                     "demo.py: error: unrecognized arguments: " \o JoinWords(extras))
         ELSE Parsed("ok", ds, "", "")
    ELSE LET t == toks[i]
             c == IF posonly THEN Token("pos", "") ELSE Classify(t)
         IN  IF ~posonly /\ t = "--"
             THEN Scan(toks, i + 1, TRUE, ds, prevds,
                       IF ds # "" /\ ~prevds THEN Append(extras, t) ELSE extras)
             ELSE IF c.kind = "help" THEN Parsed("help", "", "", "")
             ELSE IF c.kind = "badhelp"
             THEN Parsed("error", "", "explicit",
                         "demo.py: error: argument -h/--help: ignored explicit argument "
                            \o Repr(c.arg))
             ELSE IF c.kind = "unknown"
             THEN Scan(toks, i + 1, posonly, ds, FALSE, Append(extras, t))
             ELSE IF ds # ""
             THEN Scan(toks, i + 1, posonly, ds, FALSE, Append(extras, t))
             ELSE IF t \in Choices
             THEN Scan(toks, i + 1, posonly, t, TRUE, extras)
             ELSE Parsed("error", "", "invalid_choice",
                         "demo.py: error: argument dataset: invalid choice: "
                            \o Repr(t) \o " (choose from 'mnist', 'wisc')")

\* parser.parse_args() on the command line.
ParseArgv(toks) == Scan(toks, 1, FALSE, "", FALSE, << >>)

\* args.dataset
ArgsDataset == ParseArgv(argv).dataset

\* parser.format_usage() and parser.format_help(), by line.
UsageLine == "usage: demo.py [-h] {mnist,wisc}"
HelpLines == << UsageLine, "", "positional arguments:",
                "  {mnist,wisc}  data set to analyze", "", "options:",
                "  -h, --help    show this help message and exit" >>

NoPred == << >>

Init ==
    /\ pc = "parse"
    /\ argv \in Argvs
    /\ verbose \in BOOLEAN
    /\ exit_status = -1
    /\ err = << >>
    /\ out = << >>
    /\ trace = << >>
    /\ mnist = NoData
    /\ wisc = NoData
    /\ idx = << >>
    /\ idx_train = << >>
    /\ idx_test = << >>
    /\ X_train = << >>
    /\ X_test = << >>
    /\ y_train = << >>
    /\ y_test = << >>
    /\ dwave_sampler = "none"
    /\ scaler = Unfitted
    /\ normalizer = NormalizerUnfitted
    /\ clf = NoClf
    /\ clf2 = NoClf
    /\ clf3 = NoClf
    /\ clf4 = NoPlus
    /\ y_train_pred = NoPred
    /\ y_test_pred = NoPred
    /\ y_train_pred2 = NoPred
    /\ y_test_pred2 = NoPred
    /\ y_train_dw = NoPred
    /\ y_test_dw = NoPred
    /\ y_train4 = NoPred
    /\ y_test4 = NoPred

(***************************************************************************)
(* The main block.                                                         *)
(***************************************************************************)
\* Mutant: the parser has no choices.
ParseArgs_NoChoices ==
    /\ pc = "parse"
    /\ ParseArgv(argv).kind # "help"
    /\ ParseArgv(argv).reason \in {"", "invalid_choice"}
    /\ pc' = "load"
    /\ UNCHANGED <<argv, verbose, exit_status, err, out, trace, mainVars,
                   dataVars, dwave_sampler, prepVars, clfVars, predVars>>

\* parser.parse_args() with a valid command line.
ParseArgs ==
    /\ pc = "parse"
    /\ ParseArgv(argv).kind = "ok"
    /\ pc' = "load"
    /\ UNCHANGED <<argv, verbose, exit_status, err, out, trace, mainVars,
                   dataVars, dwave_sampler, prepVars, clfVars, predVars>>

\* parser.parse_args() meets -h / --help: the help goes to stdout and the
\* process exits with status 0.
ParseArgsHelp ==
    /\ pc = "parse"
    /\ ParseArgv(argv).kind = "help"
    /\ out' = out \o [k \in 1..Len(HelpLines) |-> Line(173, HelpLines[k])]
    /\ exit_status' = 0
    /\ pc' = "exit"
    /\ UNCHANGED <<argv, verbose, err, trace, mainVars, dataVars,
                   dwave_sampler, prepVars, clfVars, predVars>>

\* parser.parse_args() rejects the command line: argparse prints the usage
\* and the error to stderr and exits with status 2.
ParseArgsError ==
    /\ pc = "parse"
    /\ ParseArgv(argv).kind = "error"
    /\ err' = err \o << UsageLine, ParseArgv(argv).message >>
    /\ exit_status' = 2
    /\ pc' = "exit"
    /\ UNCHANGED <<argv, verbose, out, trace, mainVars, dataVars,
                   dwave_sampler, prepVars, clfVars, predVars>>

\* The mnist branch: print, fetch_openml, np.arange.
MnistLoad ==
    /\ pc = "load"
    /\ ArgsDataset = "mnist"
    /\ \E d \in MnistSets :
         /\ mnist' = d
         /\ idx' = Arange(Len(d.data))
    /\ out' = Append(out, Line(177, "MNIST handwritten digits data set:"))
    /\ trace' = Append(trace, Step("load", "mnist", << >>, << >>))
    /\ pc' = "shuffle"
    /\ UNCHANGED <<argv, verbose, exit_status, err, wisc, idx_train, idx_test,
                   dataVars, dwave_sampler, prepVars, clfVars, predVars>>

\* The wisc branch: print, load_breast_cancer, np.arange.
WiscLoad ==
    /\ pc = "load"
    /\ ArgsDataset = "wisc"
    /\ \E d \in WiscSets :
         /\ wisc' = d
         /\ idx' = Arange(Len(d.target))
    /\ out' = Append(out, Line(200, "Wisconsin breast cancer data set:"))
    /\ trace' = Append(trace, Step("load", "wisc", << >>, << >>))
    /\ pc' = "shuffle"
    /\ UNCHANGED <<argv, verbose, exit_status, err, mnist, idx_train, idx_test,
                   dataVars, dwave_sampler, prepVars, clfVars, predVars>>

\* np.random.shuffle(idx), in either branch.
Shuffle ==
    /\ pc = "shuffle"
    /\ idx' \in Shuffles(idx)
    /\ trace' = Append(trace, Step("shuffle", "idx", idx', << >>))
    /\ pc' = "split"
    /\ UNCHANGED <<argv, verbose, exit_status, err, out, mnist, wisc,
                   idx_train, idx_test, dataVars, dwave_sampler, prepVars,
                   clfVars, predVars>>

\* Mutant: the test slice starts one entry early.
MnistSplitAt_Overlap(n) ==
    /\ pc = "split"
    /\ ArgsDataset = "mnist"
    /\ idx' = SliceTo(idx, n)
    /\ idx_train' = SliceTo(idx', (2 * n) \div 3)
    /\ idx_test' = SliceFrom(idx', (2 * n) \div 3 - 1)
    /\ trace' = Append(trace, Step("split", "idx", idx_train', idx_test'))
    /\ pc' = "select"
    /\ UNCHANGED <<argv, verbose, exit_status, err, out, mnist, wisc,
                   dataVars, dwave_sampler, prepVars, clfVars, predVars>>

\* mnist: n = 5000; idx = idx[:n]; idx_train = idx[:2*n//3];
\* idx_test = idx[2*n//3:]
MnistSplitAt(n) ==
    /\ pc = "split"
    /\ ArgsDataset = "mnist"
    /\ idx' = SliceTo(idx, n)
    /\ idx_train' = SliceTo(idx', (2 * n) \div 3)
    /\ idx_test' = SliceFrom(idx', (2 * n) \div 3)
    /\ trace' = Append(trace, Step("split", "idx", idx_train', idx_test'))
    /\ pc' = "select"
    /\ UNCHANGED <<argv, verbose, exit_status, err, out, mnist, wisc,
                   dataVars, dwave_sampler, prepVars, clfVars, predVars>>

MnistSplit == MnistSplitAt(MnistN)

\* wisc: idx_train = idx[:2*len(idx)//3]; idx_test = idx[2*len(idx)//3:]
WiscSplitAt(k) ==
    /\ pc = "split"
    /\ ArgsDataset = "wisc"
    /\ idx_train' = SliceTo(idx, k)
    /\ idx_test' = SliceFrom(idx, k)
    /\ trace' = Append(trace, Step("split", "idx", idx_train', idx_test'))
    /\ pc' = "select"
    /\ UNCHANGED <<argv, verbose, exit_status, err, out, mnist, wisc, idx,
                   dataVars, dwave_sampler, prepVars, clfVars, predVars>>

\* Mutant: 2*(len(idx)//3) in place of 2*len(idx)//3.
WiscSplit_Precedence == WiscSplitAt(2 * (Len(idx) \div 3))

WiscSplit == WiscSplitAt((2 * Len(idx)) \div 3)

\* Mutant: target < '4'.
MnistLabel_Strict(t) == 2 * (IF StrLE(t, "4") /\ t # "4" THEN 1 ELSE 0) - 1

\* 2*(target <= '4') - 1 on one mnist target.
MnistLabel(t) == 2 * (IF StrLE(t, "4") THEN 1 ELSE 0) - 1

\* 2 * target - 1 on one wisc target.
WiscLabel(t) == 2 * t - 1

\* The label arithmetic is elementwise on the target array.
MnistLabels(ts) == [k \in 1..Len(ts) |-> MnistLabel(ts[k])]
WiscLabels(ts) == [k \in 1..Len(ts) |-> WiscLabel(ts[k])]

\* mnist: X_train, X_test, y_train, y_test.
MnistSelect ==
    /\ pc = "select"
    /\ ArgsDataset = "mnist"
    /\ X_train' = Take(mnist.data, idx_train)
    /\ X_test' = Take(mnist.data, idx_test)
    /\ y_train' = MnistLabels(Take(mnist.target, idx_train))
    /\ y_test' = MnistLabels(Take(mnist.target, idx_test))
    /\ pc' = "call"
    /\ UNCHANGED <<argv, verbose, exit_status, err, out, trace, mainVars,
                   dwave_sampler, prepVars, clfVars, predVars>>

\* wisc: X_train, X_test, y_train, y_test.
WiscSelect ==
    /\ pc = "select"
    /\ ArgsDataset = "wisc"
    /\ X_train' = Take(wisc.data, idx_train)
    /\ X_test' = Take(wisc.data, idx_test)
    /\ y_train' = WiscLabels(Take(wisc.target, idx_train))
    /\ y_test' = WiscLabels(Take(wisc.target, idx_test))
    /\ pc' = "call"
    /\ UNCHANGED <<argv, verbose, exit_status, err, out, trace, mainVars,
                   dwave_sampler, prepVars, clfVars, predVars>>

\* train_models(X_train, y_train, X_test, y_test, 1.0), in either branch.
CallTrainModels ==
    /\ pc = "call"
    /\ trace' = Append(trace, Step("train_models", "main", X_train, y_train))
    /\ pc' = "sampler"
    /\ UNCHANGED <<argv, verbose, exit_status, err, out, mainVars, dataVars,
                   dwave_sampler, prepVars, clfVars, predVars>>

(***************************************************************************)
(* train_models.                                                           *)
(***************************************************************************)
\* An exception nothing catches: traceback on stderr, exit status 1.
Raise(exc) ==
    /\ err' = Append(err, "Traceback (most recent call last): " \o exc)
    /\ exit_status' = 1
    /\ pc' = "exit"

\* dwave_sampler = DWaveSampler(); emb_sampler = EmbeddingComposite(...)
DefineSampler ==
    /\ pc = "sampler"
    /\ dwave_sampler' = "ready"
    /\ trace' = Append(trace, Step("construct", "sampler", << >>, << >>))
    /\ pc' = "sizes"
    /\ UNCHANGED <<argv, verbose, exit_status, err, out, mainVars, dataVars,
                   prepVars, clfVars, predVars>>

\* DWaveSampler() raises: no solver can be reached.
DefineSamplerFails ==
    /\ pc = "sampler"
    /\ Raise("sampler unavailable")
    /\ trace' = Append(trace, Step("raise", "sampler", << >>, << >>))
    /\ UNCHANGED <<argv, verbose, out, mainVars, dataVars, dwave_sampler,
                   prepVars, clfVars, predVars>>

\* N_train, N_test and the four lines about sizes.
PrintSizes ==
    /\ pc = "sizes"
    /\ out' = out \o
         << Line(67, "Size of training set: " \o IntStr(Len(X_train))),
            Line(68, "Size of test set:     " \o IntStr(Len(X_test))),
            Line(69, "Number of weak classifiers: " \o IntStr(NUM_WEAK_CLASSIFIERS)),
            Line(70, "Tree depth: " \o IntStr(TREE_DEPTH)) >>
    /\ pc' = "prep_train"
    /\ UNCHANGED <<argv, verbose, exit_status, err, trace, mainVars, dataVars,
                   dwave_sampler, prepVars, clfVars, predVars>>

\* X_train = scaler.fit_transform(X_train);
\* X_train = normalizer.fit_transform(X_train)
PreprocessTrain ==
    /\ pc = "prep_train"
    /\ Len(X_train) > 0
    /\ scaler' = ScalerFit(X_train)
    /\ normalizer' = NormalizerFit(X_train)
    /\ X_train' = Preprocess(scaler', X_train)
    /\ trace' = trace \o << Step("fit_transform", "scaler", X_train, << >>),
                            Step("fit_transform", "normalizer", X_train', << >>) >>
    /\ pc' = "prep_test"
    /\ UNCHANGED <<argv, verbose, exit_status, err, out, mainVars, X_test,
                   y_train, y_test, dwave_sampler, clfVars, predVars>>

\* scaler.fit_transform on an array of no samples raises ValueError.
PreprocessTrainEmpty ==
    /\ pc = "prep_train"
    /\ Len(X_train) = 0
    /\ Raise("ValueError: Found array with 0 sample(s)")
    /\ trace' = Append(trace, Step("raise", "scaler", X_train, << >>))
    /\ UNCHANGED <<argv, verbose, out, mainVars, dataVars, dwave_sampler,
                   prepVars, clfVars, predVars>>

\* X_test = scaler.fit_transform(X_test);
\* X_test = normalizer.fit_transform(X_test)
\* (X_test has a sample whenever X_train has one, in both branches.)
PreprocessTest ==
    /\ pc = "prep_test"
    /\ Len(X_test) > 0
    /\ scaler' = ScalerFit(X_test)
    /\ normalizer' = NormalizerFit(X_test)
    /\ X_test' = Preprocess(scaler', X_test)
    /\ trace' = trace \o << Step("fit_transform", "scaler", X_test, << >>),
                            Step("fit_transform", "normalizer", X_test', << >>) >>
    /\ pc' = "ada_fit"
    /\ UNCHANGED <<argv, verbose, exit_status, err, out, mainVars, X_train,
                   y_train, y_test, dwave_sampler, clfVars, predVars>>

\* The trace of the two predict calls of one classifier.
PredictSteps(who) == << Step("predict", who, X_train, << >>),
                        Step("predict", who, X_test, << >>) >>

\* print('\nAdaboost:'); clf = AdaBoostClassifier(...); clf.fit(X_train, y_train)
AdaboostFit ==
    /\ pc = "ada_fit"
    /\ out' = Append(out, Line(89, "\nAdaboost:"))
    /\ clf' \in FitOutcomes
    /\ trace' = Append(trace, Step("fit", "clf", X_train, y_train))
    /\ pc' = "ada_predict"
    /\ UNCHANGED <<argv, verbose, exit_status, err, mainVars, dataVars,
                   dwave_sampler, prepVars, clf2, clf3, clf4, predVars>>

AdaboostPredict ==
    /\ pc = "ada_predict"
    /\ y_train_pred' = Predict(clf, X_train)
    /\ y_test_pred' = Predict(clf, X_test)
    /\ trace' = trace \o PredictSteps("clf")
    /\ pc' = "ada_report"
    /\ UNCHANGED <<argv, verbose, exit_status, err, out, mainVars, dataVars,
                   dwave_sampler, prepVars, clfVars, y_train_pred2,
                   y_test_pred2, y_train_dw, y_test_dw, y_train4, y_test4>>

AdaboostReport ==
    /\ pc = "ada_report"
    /\ out' = out \o AccuracyLines(101, y_train_pred, y_test_pred)
    /\ pc' = "dt_fit"
    /\ UNCHANGED <<argv, verbose, exit_status, err, trace, mainVars, dataVars,
                   dwave_sampler, prepVars, clfVars, predVars>>

\* print('\nDecision tree:'); clf2 = WeakClassifiers(...); clf2.fit(...)
DecisionTreeFit ==
    /\ pc = "dt_fit"
    /\ out' = Append(out, Line(105, "\nDecision tree:"))
    /\ clf2' \in FitOutcomes
    /\ trace' = Append(trace, Step("fit", "clf2", X_train, y_train))
    /\ pc' = "dt_predict"
    /\ UNCHANGED <<argv, verbose, exit_status, err, mainVars, dataVars,
                   dwave_sampler, prepVars, clf, clf3, clf4, predVars>>

DecisionTreePredict ==
    /\ pc = "dt_predict"
    /\ y_train_pred2' = Predict(clf2, X_train)
    /\ y_test_pred2' = Predict(clf2, X_test)
    /\ trace' = trace \o PredictSteps("clf2")
    /\ pc' = "dt_report"
    /\ UNCHANGED <<argv, verbose, exit_status, err, out, mainVars, dataVars,
                   dwave_sampler, prepVars, clfVars, y_train_pred,
                   y_test_pred, y_train_dw, y_test_dw, y_train4, y_test4>>

DecisionTreeReport ==
    /\ pc = "dt_report"
    /\ out' = out \o WeightLines(114, "weights:\n", clf2)
                  \o AccuracyLines(116, y_train_pred2, y_test_pred2)
    /\ pc' = "qb_fit"
    /\ UNCHANGED <<argv, verbose, exit_status, err, trace, mainVars, dataVars,
                   dwave_sampler, prepVars, clfVars, predVars>>

\* print('\nQBoost:'); clf3 = QBoostClassifier(...);
\* clf3.fit(X_train, y_train, emb_sampler, lmd=lmd, **DW_PARAMS)
QBoostFit ==
    /\ pc = "qb_fit"
    /\ out' = Append(out, Line(120, "\nQBoost:"))
    /\ clf3' \in FitOutcomes
    /\ trace' = Append(trace, Step("fit", "clf3", X_train, y_train))
    /\ pc' = "qb_predict"
    /\ UNCHANGED <<argv, verbose, exit_status, err, mainVars, dataVars,
                   dwave_sampler, prepVars, clf, clf2, clf4, predVars>>

\* clf3.fit raises: the sampler cannot be reached.
QBoostFitFails ==
    /\ pc = "qb_fit"
    /\ out' = Append(out, Line(120, "\nQBoost:"))
    /\ Raise("sampler unavailable")
    /\ trace' = Append(trace, Step("raise", "clf3", X_train, y_train))
    /\ UNCHANGED <<argv, verbose, mainVars, dataVars, dwave_sampler,
                   prepVars, clfVars, predVars>>

\* Mutant: the test predictions are taken on X_train.
QBoostPredict_TrainTwice ==
    /\ pc = "qb_predict"
    /\ y_train_dw' = Predict(clf3, X_train)
    /\ y_test_dw' = Predict(clf3, X_train)
    /\ trace' = trace \o << Step("predict", "clf3", X_train, << >>),
                            Step("predict", "clf3", X_train, << >>) >>
    /\ pc' = "qb_report"
    /\ UNCHANGED <<argv, verbose, exit_status, err, out, mainVars, dataVars,
                   dwave_sampler, prepVars, clfVars, y_train_pred,
                   y_test_pred, y_train_pred2, y_test_pred2, y_train4, y_test4>>

QBoostPredict ==
    /\ pc = "qb_predict"
    /\ y_train_dw' = Predict(clf3, X_train)
    /\ y_test_dw' = Predict(clf3, X_test)
    /\ trace' = trace \o PredictSteps("clf3")
    /\ pc' = "qb_report"
    /\ UNCHANGED <<argv, verbose, exit_status, err, out, mainVars, dataVars,
                   dwave_sampler, prepVars, clfVars, y_train_pred,
                   y_test_pred, y_train_pred2, y_test_pred2, y_train4, y_test4>>

QBoostReport ==
    /\ pc = "qb_report"
    /\ out' = out \o WeightLines(136, "weights\n", clf3)
                  \o AccuracyLines(138, y_train_dw, y_test_dw)
    /\ pc' = "plus_fit"
    /\ UNCHANGED <<argv, verbose, exit_status, err, trace, mainVars, dataVars,
                   dwave_sampler, prepVars, clfVars, predVars>>

\* Mutant: the meta-ensemble is built and fitted before clf3 is.
QBoostPlusFit_Early ==
    /\ pc = "qb_fit"
    /\ out' = Append(out, Line(143, "\nQBoostPlus:"))
    /\ clf4' \in PlusFitOutcomes(<<clf, clf2, clf3>>)
    /\ trace' = Append(trace, Step("fit", "clf4", X_train, y_train))
    /\ pc' = "plus_predict"
    /\ UNCHANGED <<argv, verbose, exit_status, err, mainVars, dataVars,
                   dwave_sampler, prepVars, clf, clf2, clf3, predVars>>

\* print('\nQBoostPlus:'); clf4 = QboostPlus([clf, clf2, clf3]);
\* clf4.fit(X_train, y_train, emb_sampler, lmd=lmd, **DW_PARAMS)
QBoostPlusFit ==
    /\ pc = "plus_fit"
    /\ out' = Append(out, Line(143, "\nQBoostPlus:"))
    /\ clf4' \in PlusFitOutcomes(<<clf, clf2, clf3>>)
    /\ trace' = Append(trace, Step("fit", "clf4", X_train, y_train))
    /\ pc' = "plus_predict"
    /\ UNCHANGED <<argv, verbose, exit_status, err, mainVars, dataVars,
                   dwave_sampler, prepVars, clf, clf2, clf3, predVars>>

\* clf4.fit raises: the sampler cannot be reached.
QBoostPlusFitFails ==
    /\ pc = "plus_fit"
    /\ out' = Append(out, Line(143, "\nQBoostPlus:"))
    /\ Raise("sampler unavailable")
    /\ trace' = Append(trace, Step("raise", "clf4", X_train, y_train))
    /\ UNCHANGED <<argv, verbose, mainVars, dataVars, dwave_sampler,
                   prepVars, clfVars, predVars>>

QBoostPlusPredict ==
    /\ pc = "plus_predict"
    /\ y_train4' = PredictPlus(clf4, X_train)
    /\ y_test4' = PredictPlus(clf4, X_test)
    /\ trace' = trace \o PredictSteps("clf4")
    /\ pc' = "plus_report"
    /\ UNCHANGED <<argv, verbose, exit_status, err, out, mainVars, dataVars,
                   dwave_sampler, prepVars, clfVars, y_train_pred,
                   y_test_pred, y_train_pred2, y_test_pred2, y_train_dw,
                   y_test_dw>>

QBoostPlusReport ==
    /\ pc = "plus_report"
    /\ out' = out \o WeightLines(150, "weights\n", clf4)
                  \o AccuracyLines(152, y_train4, y_test4)
    /\ pc' = "table"
    /\ UNCHANGED <<argv, verbose, exit_status, err, trace, mainVars, dataVars,
                   dwave_sampler, prepVars, clfVars, predVars>>

\* The three lists the table loop zips.
TableNames == <<"Adaboost", "DecisionTree", "Qboost", "QboostIt">>
TableTrainPreds == <<y_train_pred, y_train_pred2, y_train_dw, y_train4>>
\* Mutant: the last test entry repeats the third.
TableTestPreds_Dup == <<y_test_pred, y_test_pred2, y_test_dw, y_test_dw>>
TableTestPreds == <<y_test_pred, y_test_pred2, y_test_dw, y_test4>>

\* "{:14}{:<7.2f}{:<7.2f}".format(name, metric(...), metric(...))
TableRow(name, yp_train, yp_test) ==
    PadRight(name, 14) \o PadRight(Fmt2f(metric(y_train, yp_train)), 7)
                       \o PadRight(Fmt2f(metric(y_test, yp_test)), 7)

\* One row per element of the zip, in order.
TableRows ==
    [k \in 1..Min(Len(TableNames), Min(Len(TableTrainPreds), Len(TableTestPreds))) |->
        Line(163, TableRow(TableNames[k], TableTrainPreds[k], TableTestPreds[k]))]

\* The final table.
PrintTable ==
    /\ pc = "table"
    /\ out' = out \o << Line(156, ""),
                        Line(157, Repeat("=", 28)),
                        Line(158, PadRight("Method", 14) \o PadRight("Train", 7)
                                                         \o PadRight("Test", 7)),
                        Line(159, Repeat("-", 28)) >>
                  \o TableRows
                  \o << Line(164, Repeat("=", 28)) >>
    /\ trace' = Append(trace, Step("table", "out", << >>, << >>))
    /\ pc' = "return"
    /\ UNCHANGED <<argv, verbose, exit_status, err, mainVars, dataVars,
                   dwave_sampler, prepVars, clfVars, predVars>>

\* train_models returns, the main block ends: exit status 0.
Finish ==
    /\ pc = "return"
    /\ exit_status' = 0
    /\ pc' = "done"
    /\ UNCHANGED <<argv, verbose, err, out, trace, mainVars, dataVars,
                   dwave_sampler, prepVars, clfVars, predVars>>

Next ==
    \/ ParseArgs
    \/ ParseArgsHelp
    \/ ParseArgsError
    \/ MnistLoad
    \/ WiscLoad
    \/ Shuffle
    \/ MnistSplit
    \/ WiscSplit
    \/ MnistSelect
    \/ WiscSelect
    \/ CallTrainModels
    \/ DefineSampler
    \/ DefineSamplerFails
    \/ PrintSizes
    \/ PreprocessTrain
    \/ PreprocessTrainEmpty
    \/ PreprocessTest
    \/ AdaboostFit
    \/ AdaboostPredict
    \/ AdaboostReport
    \/ DecisionTreeFit
    \/ DecisionTreePredict
    \/ DecisionTreeReport
    \/ QBoostFit
    \/ QBoostFitFails
    \/ QBoostPredict
    \/ QBoostReport
    \/ QBoostPlusFit
    \/ QBoostPlusFitFails
    \/ QBoostPlusPredict
    \/ QBoostPlusReport
    \/ PrintTable
    \/ Finish

Spec == Init /\ [][Next]_vars

(***************************************************************************)
(* Vocabulary of the properties.                                           *)
(***************************************************************************)
HasStep(op) == \E k \in 1..Len(trace) : trace[k].op = op

StepsOf(op, who) == SelectSeq(trace, LAMBDA e : e.op = op /\ e.who = who)

\* The order np.random.shuffle left the indices in.
ShuffledIdx == (CHOOSE e \in Range(trace) : e.op = "shuffle").X

\* The number of samples of the loaded data set.
DatasetLen == IF ArgsDataset = "mnist" THEN Len(mnist.data) ELSE Len(wisc.target)

LinesAt(ln) == SelectSeq(out, LAMBDA l : l.line = ln)

IsWeightsLine(l) == Len(l.text) >= 7 /\ SubSeq(l.text, 1, 7) = "weights"

SamplerFailed ==
    \E k \in 1..Len(trace) :
        trace[k].op = "raise" /\ trace[k].who \in {"sampler", "clf3", "clf4"}

TablePrinted == LinesAt(158) # << >>

\* Preprocessing is over: both fit_transform pairs have run.
PostPreprocess == Len(StepsOf("fit_transform", "normalizer")) = 2

(***************************************************************************)
(* C1.  As claimed: for both data sets and every shuffle, idx_train and    *)
(* idx_test are disjoint and together cover every sample index of the      *)
(* loaded data set, so |train| + |test| = |dataset|.                       *)
(***************************************************************************)
C1_SplitCoversDataset ==
    HasStep("split") =>
        /\ Range(idx_train) \cap Range(idx_test) = {}
        /\ Range(idx_train) \cup Range(idx_test) = 0..(DatasetLen - 1)
        /\ Len(idx_train) + Len(idx_test) = DatasetLen

(***************************************************************************)
(* C1, amended.  idx_train and idx_test are always disjoint and without    *)
(* repetition.  For wisc they cover every sample index of the data set.    *)
(* For mnist they cover exactly the first n entries of the shuffled order  *)
(* (n = 5000 in the code), so |train| + |test| = min(n, |dataset|).        *)
(***************************************************************************)
C1_SplitPartition ==
    HasStep("split") =>
        LET covered == IF ArgsDataset = "mnist"
                       THEN Range(SubSeq(ShuffledIdx, 1, Min(MnistN, DatasetLen)))
                       ELSE 0..(DatasetLen - 1)
        IN  /\ Range(idx_train) \cap Range(idx_test) = {}
            /\ Range(idx_train) \cup Range(idx_test) = covered
            /\ Len(idx_train) + Len(idx_test) = Cardinality(covered)
            /\ Cardinality(covered) =
                 IF ArgsDataset = "mnist" THEN Min(MnistN, DatasetLen) ELSE DatasetLen

C1_Witness ==
    /\ HasStep("split")
    /\ ArgsDataset = "mnist"
    /\ DatasetLen > MnistN
    /\ Len(idx_train) > 0
    /\ Len(idx_test) > 0

(***************************************************************************)
(* C2.  As claimed: when the sampler is unavailable (at construction or in *)
(* a fit that uses it), the run still prints the final table and ends with *)
(* exit status zero.                                                       *)
(***************************************************************************)
C2_SamplerFailureIsolated ==
    (SamplerFailed /\ pc = "exit") => (TablePrinted /\ exit_status = 0)

(***************************************************************************)
(* Vocabulary of C3, read off the command line itself.                     *)
(***************************************************************************)
\* The i-th argument string is the dataset argument (the first string that
\* is not written as an option) and is not an enumerated identifier.
NamesInvalidDataset(i) ==
    /\ i \in 1..Len(argv)
    /\ ~StartsWith(argv[i], "-")
    /\ argv[i] \notin {"mnist", "wisc"}
    /\ \A j \in 1..(i - 1) : StartsWith(argv[j], "-")

\* The string is written as a help option: -h..., --h...
WrittenAsHelp(t) == StartsWith(t, "-h") \/ StartsWith(t, "--h")

\* No data set is loaded, no shuffle is done, train_models is not called.
NothingLoaded ==
    /\ trace = << >>
    /\ mnist = NoData /\ wisc = NoData
    /\ idx = << >>
    /\ pc \in {"parse", "exit"}

\* The run ended with a usage error: status 2, the usage line and the error
\* line on stderr, nothing on stdout.
UsageError ==
    /\ exit_status = 2
    /\ out = << >>
    /\ \E k \in 1..Len(err) : SubSeq(err[k], 1, 6) = "usage:"
    /\ \E k \in 1..Len(err) : SubSeq(err[k], 1, 14) = "demo.py: error"

\* The run ended after printing the help: status 0, the usage line first on
\* stdout, nothing on stderr.
HelpShown ==
    /\ exit_status = 0
    /\ err = << >>
    /\ Len(out) > 0
    /\ SubSeq(out[1].text, 1, 6) = "usage:"

(***************************************************************************)
(* C3.  As claimed: an invocation whose dataset argument is not "mnist" or *)
(* "wisc" ends with a usage error and a non-zero exit status; no data set  *)
(* is loaded, no shuffle is done and train_models is not called.           *)
(***************************************************************************)
C3_UnknownDatasetRejected ==
    \A i \in 1..Len(argv) : NamesInvalidDataset(i) =>
        /\ NothingLoaded
        /\ pc = "exit" =>
             /\ exit_status # 0
             /\ \E k \in 1..Len(err) : SubSeq(err[k], 1, 6) = "usage:"

(***************************************************************************)
(* C3, amended.  An invocation whose dataset argument is not "mnist" or    *)
(* "wisc" never loads a data set, shuffles or calls train_models.  It ends *)
(* with a usage error and exit status 2 unless a string written as a help  *)
(* option stands before the dataset argument; when the command line starts *)
(* with -h or --help it prints the help and ends with exit status 0.       *)
(***************************************************************************)
C3_InvalidDatasetNotLoaded ==
    \A i \in 1..Len(argv) : NamesInvalidDataset(i) =>
        /\ NothingLoaded
        /\ (pc = "exit" /\ \A j \in 1..(i - 1) : ~WrittenAsHelp(argv[j]))
              => UsageError
        /\ (pc = "exit" /\ argv[1] \in {"-h", "--help"}) => HelpShown

C3_Witness ==
    /\ NamesInvalidDataset(1)
    /\ argv = <<"unknown">>
    /\ pc = "exit"
    /\ exit_status = 2
    /\ Len(err) = 2

(***************************************************************************)
(* C4.  As claimed: once preprocessing is over, the fitted scaler state is *)
(* the one fitted on the training set, and the scaler was fitted once.     *)
(***************************************************************************)
C4_FittedOnTrainOnly ==
    PostPreprocess =>
        LET data == IF ArgsDataset = "mnist" THEN mnist.data ELSE wisc.data
        IN  /\ scaler = ScalerFit(Take(data, idx_train))
            /\ Len(StepsOf("fit_transform", "scaler")) = 1

(***************************************************************************)
(* C5.  The steps of a run happen in one fixed order: load, shuffle and    *)
(* split, preprocess (train, then test), then fit followed by the two      *)
(* predicts for Adaboost, DecisionTree, QBoost and QBoostPlus, then the    *)
(* table.  So no predict precedes its classifier's fit, and the QBoostPlus *)
(* fit follows the fits of the three base classifiers.                     *)
(***************************************************************************)
FixedOrder ==
    << <<"load", "dataset">>, <<"shuffle", "idx">>, <<"split", "idx">>,
       <<"train_models", "main">>, <<"construct", "sampler">>,
       <<"fit_transform", "scaler">>, <<"fit_transform", "normalizer">>,
       <<"fit_transform", "scaler">>, <<"fit_transform", "normalizer">>,
       <<"fit", "clf">>,  <<"predict", "clf">>,  <<"predict", "clf">>,
       <<"fit", "clf2">>, <<"predict", "clf2">>, <<"predict", "clf2">>,
       <<"fit", "clf3">>, <<"predict", "clf3">>, <<"predict", "clf3">>,
       <<"fit", "clf4">>, <<"predict", "clf4">>, <<"predict", "clf4">>,
       <<"table", "out">> >>

\* The steps that completed (a raise ends the run and is its last entry).
Completed == SelectSeq(trace, LAMBDA e : e.op # "raise")

C5_FixedOrder ==
    /\ LET done == Completed
       IN  /\ Len(done) <= Len(FixedOrder)
           /\ \A k \in 1..Len(done) :
                /\ done[k].op = FixedOrder[k][1]
                /\ done[k].who =
                     IF FixedOrder[k][1] = "load" THEN ArgsDataset ELSE FixedOrder[k][2]
    /\ \A k \in 1..Len(trace) : trace[k].op = "raise" => k = Len(trace)
    /\ \A k \in 1..Len(trace) :
         trace[k].op = "predict" =>
            \E j \in 1..(k - 1) : trace[j].op = "fit" /\ trace[j].who = trace[k].who
    /\ \A k \in 1..Len(trace) :
         (trace[k].op = "fit" /\ trace[k].who = "clf4") =>
            \A b \in {"clf", "clf2", "clf3"} :
               \E j \in 1..(k - 1) : trace[j].op = "fit" /\ trace[j].who = b
    /\ TablePrinted => Len(Completed) = Len(FixedOrder)
    /\ (clf4.fitted => clf.fitted /\ clf2.fitted /\ clf3.fitted)

C5_Witness == pc = "done" /\ Len(trace) = Len(FixedOrder) /\ clf4.fitted

(***************************************************************************)
(* C6.  The final table has exactly one row per classifier, in the order   *)
(* Adaboost, DecisionTree, Qboost, QboostIt.  The train and test entries   *)
(* of a row are the accuracies of that classifier's own predictions        *)
(* against y_train and y_test, the same text as in its accuracy lines,     *)
(* each with two decimal places.                                           *)
(***************************************************************************)
DigitValue(c) == CHOOSE d \in 0..9 : Digits[d + 1] = c

IsDigit(c) == \E d \in 0..9 : Digits[d + 1] = c

\* s reads d.dd
TwoDecimals(s) ==
    /\ Len(s) = 4
    /\ IsDigit(SubSeq(s, 1, 1))
    /\ SubSeq(s, 2, 2) = "."
    /\ IsDigit(SubSeq(s, 3, 3))
    /\ IsDigit(SubSeq(s, 4, 4))

\* The number of hundredths s reads.
ReadHundredths(s) ==
    100 * DigitValue(SubSeq(s, 1, 1)) + 10 * DigitValue(SubSeq(s, 3, 3))
        + DigitValue(SubSeq(s, 4, 4))

\* s is the fraction of k in 1..Len(y) with y[k] = yp[k], to the nearest
\* hundredth.
ShowsAccuracy(s, y, yp) ==
    LET right == Cardinality({ k \in 1..Len(y) : y[k] = yp[k] })
        diff  == 100 * right - ReadHundredths(s) * Len(y)
    IN  /\ TwoDecimals(s)
        /\ Len(yp) = Len(y)
        /\ 2 * diff <= Len(y)
        /\ 2 * diff >= 0 - Len(y)

\* The number an accuracy line ends with.
LineNumber(l) == SubSeq(l.text, Len(l.text) - 3, Len(l.text))

C6_TableRows ==
    TablePrinted =>
        LET rows   == LinesAt(163)
            names  == <<"Adaboost", "DecisionTree", "Qboost", "QboostIt">>
            trains == <<y_train_pred, y_train_pred2, y_train_dw, y_train4>>
            tests  == <<y_test_pred, y_test_pred2, y_test_dw, y_test4>>
            heads  == <<101, 116, 138, 152>>
        IN  /\ Len(rows) = 4
            /\ \A k \in 1..4 :
                 LET text == rows[k].text
                     head_train == LinesAt(heads[k])
                     head_test == LinesAt(heads[k] + 1)
                 IN  /\ Len(text) = 28
                     /\ SubSeq(text, 1, Len(names[k])) = names[k]
                     /\ SubSeq(text, Len(names[k]) + 1, 14)
                          = Spaces(14 - Len(names[k]))
                     /\ ShowsAccuracy(SubSeq(text, 15, 18), y_train, trains[k])
                     /\ SubSeq(text, 19, 21) = "   "
                     /\ ShowsAccuracy(SubSeq(text, 22, 25), y_test, tests[k])
                     /\ SubSeq(text, 26, 28) = "   "
                     /\ Len(head_train) = 1
                     /\ Len(head_test) = 1
                     /\ LineNumber(head_train[1]) = SubSeq(text, 15, 18)
                     /\ LineNumber(head_test[1]) = SubSeq(text, 22, 25)

\* A table whose rows differ in both columns, one entry reading 0.67.
C6_Witness ==
    /\ pc = "done"
    /\ TablePrinted
    /\ metric(y_test, y_test_dw) # metric(y_test, y_test4)
    /\ metric(y_train, y_train_pred) # metric(y_train, y_train_pred2)
    /\ metric(y_train, y_train_pred2).num * 3 = metric(y_train, y_train_pred2).den * 2

(***************************************************************************)
(* C7.  Every label handed to train_models is +1 or -1, in both splits of  *)
(* both data sets.  For wisc, target 1 gives +1 and target 0 gives -1.     *)
(* For mnist, a sample is labelled +1 exactly when its digit is at most 4. *)
(***************************************************************************)
C7_SpinLabels ==
    HasStep("train_models") =>
        LET target == IF ArgsDataset = "mnist" THEN mnist.target ELSE wisc.target
            want(t) == IF ArgsDataset = "mnist"
                       THEN (IF DigitValue(t) <= 4 THEN 1 ELSE -1)
                       ELSE (IF t = 1 THEN 1 ELSE -1)
        IN  /\ Len(y_train) = Len(idx_train)
            /\ Len(y_test) = Len(idx_test)
            /\ \A k \in 1..Len(y_train) :
                 /\ y_train[k] \in {1, -1}
                 /\ y_train[k] = want(target[idx_train[k] + 1])
            /\ \A k \in 1..Len(y_test) :
                 /\ y_test[k] \in {1, -1}
                 /\ y_test[k] = want(target[idx_test[k] + 1])

\* mnist labels on both sides of the threshold, the digit 4 among them.
C7_Witness ==
    /\ HasStep("train_models")
    /\ ArgsDataset = "mnist"
    /\ \E k \in 1..Len(y_train) :
         mnist.target[idx_train[k] + 1] = "4" /\ y_train[k] = 1
    /\ \E k \in 1..Len(y_test) :
         mnist.target[idx_test[k] + 1] = "5" /\ y_test[k] = -1

(***************************************************************************)
(* C8.  With n the number of shuffled indices that are split (the subsample*)
(* size for mnist, the data set size for wisc), idx_train is the first     *)
(* floor(2n/3) entries of the shuffled order and idx_test the remaining    *)
(* n - floor(2n/3); both are non-empty when n >= 2.                        *)
(***************************************************************************)
C8_TwoThirds ==
    HasStep("split") =>
        LET n == IF ArgsDataset = "mnist" THEN MnistN ELSE DatasetLen
            cut == (2 * n) \div 3
        IN  /\ Len(idx_train) = cut
            /\ Len(idx_test) = n - cut
            /\ \A k \in 1..cut : idx_train[k] = ShuffledIdx[k]
            /\ \A k \in 1..(n - cut) : idx_test[k] = ShuffledIdx[cut + k]
            /\ 3 * cut <= 2 * n
            /\ 3 * (cut + 1) > 2 * n
            /\ n >= 2 => (Len(idx_train) >= 1 /\ Len(idx_test) >= 1)

C8_Witness ==
    /\ HasStep("split")
    /\ ArgsDataset = "wisc"
    /\ DatasetLen = 2
    /\ Len(idx_train) = 1
    /\ Len(idx_test) = 1

(***************************************************************************)
(* C9.  After preprocessing, X_train, y_train, X_test and y_test are never *)
(* assigned again; every fit receives (X_train, y_train), every classifier *)
(* predicts on X_train and then on X_test, and every accuracy line shows   *)
(* the accuracy against y_train or y_test.                                 *)
(***************************************************************************)
Classifiers == <<"clf", "clf2", "clf3", "clf4">>

C9_SameInputs ==
    PostPreprocess =>
        /\ \A k \in 1..Len(trace) :
             trace[k].op = "fit" => (trace[k].X = X_train /\ trace[k].y = y_train)
        /\ \A c \in 1..4 :
             LET ps == StepsOf("predict", Classifiers[c])
             IN  /\ Len(ps) \in {0, 2}
                 /\ Len(ps) = 2 => (ps[1].X = X_train /\ ps[2].X = X_test)
        /\ LET trains == <<y_train_pred, y_train_pred2, y_train_dw, y_train4>>
               tests  == <<y_test_pred, y_test_pred2, y_test_dw, y_test4>>
               heads  == <<101, 116, 138, 152>>
           IN  \A c \in 1..4 :
                 /\ \A k \in 1..Len(LinesAt(heads[c])) :
                      ShowsAccuracy(LineNumber(LinesAt(heads[c])[k]), y_train, trains[c])
                 /\ \A k \in 1..Len(LinesAt(heads[c] + 1)) :
                      ShowsAccuracy(LineNumber(LinesAt(heads[c] + 1)[k]), y_test, tests[c])

C9_SameSplit ==
    /\ []C9_SameInputs
    /\ [][PostPreprocess => UNCHANGED dataVars]_vars

C9_Witness ==
    /\ pc = "done"
    /\ PostPreprocess
    /\ X_train # X_test
    /\ Len(StepsOf("predict", "clf4")) = 2

(***************************************************************************)
(* C10.  As claimed: under verbose, each of the four classifiers has its   *)
(* weight vector printed before its accuracy lines; without verbose no     *)
(* weight vector is printed.                                               *)
(***************************************************************************)
SectionHeads == <<89, 105, 120, 143>>
AccuracyHeads == <<101, 116, 138, 152>>

\* The position in out of the first line printed at source line ln (0: none).
FirstAt(ln) ==
    IF \E i \in 1..Len(out) : out[i].line = ln
    THEN CHOOSE i \in 1..Len(out) :
           out[i].line = ln /\ \A j \in 1..(i - 1) : out[j].line # ln
    ELSE 0

\* Classifier c's accuracy lines are out, with a weights line between its
\* section header and them.
WeightsBeforeAccuracy(c) ==
    LET acc == FirstAt(AccuracyHeads[c])
    IN  acc # 0 =>
          \E j \in (FirstAt(SectionHeads[c]) + 1)..(acc - 1) : IsWeightsLine(out[j])

NoWeightsLine == \A i \in 1..Len(out) : ~IsWeightsLine(out[i])

C10_WeightsForAllFour ==
    /\ verbose => \A c \in 1..4 : WeightsBeforeAccuracy(c)
    /\ ~verbose => NoWeightsLine

(***************************************************************************)
(* C10, amended.  Under verbose, DecisionTree, QBoost and QBoostPlus each  *)
(* have their weight vector printed before their accuracy lines, and no    *)
(* weight vector is printed for Adaboost; without verbose no weight vector *)
(* is printed.                                                             *)
(***************************************************************************)
C10_WeightsForThree ==
    /\ verbose =>
         /\ \A c \in 2..4 : WeightsBeforeAccuracy(c)
         /\ LET dt == FirstAt(105)
            IN  \A i \in 1..Len(out) : IsWeightsLine(out[i]) => (dt # 0 /\ i > dt)
         /\ Len(SelectSeq(out, IsWeightsLine)) <= 3
    /\ ~verbose => NoWeightsLine

C10_Witness ==
    /\ verbose
    /\ pc = "done"
    /\ Len(SelectSeq(out, IsWeightsLine)) = 3

====
